---- MODULE Spec2Model ----
(***************************************************************************)
(* Model of hledger-get-market-prices, src/src/lib.rs: the `history`       *)
(* command (get_history_for_stock).  Strings are sequences of one-char     *)
(* strings; the journal file is the sequence of its bytes on disk, so that *)
(* the line reader (BufRead::lines, trim_start, split_once) and the writer *)
(* (writeln!) are modelled by what they do to the bytes.                   *)
(***************************************************************************)
EXTENDS Integers, Sequences, FiniteSets, TLC

(* ------------------------------ bounds -------------------------------- *)

\* most chunks (lines with their terminators) an initial journal file holds
MaxLines == 2

\* most (date, close) entries a fetched time series holds
MaxFetch == 2

\* closing prices of the formatter specification are q/4 for q in 0..MaxQuarters
MaxQuarters == 10

\* --decimal-digits values of the formatter specification are 0..MaxDigits
MaxDigits == 2

\* most invocations of the history command, one after the other, on one file
MaxRuns == 2

(* ---------------------------- characters ------------------------------ *)

LF == "\n"
CR == "\r"
SP == " "

\* byte values of the characters the model uses (String's Ord is bytewise)
CharCode(c) ==
  CASE c = LF  -> 10 [] c = CR  -> 13 [] c = SP  -> 32 [] c = "$" -> 36
    [] c = "," -> 44 [] c = "." -> 46 [] c = "0" -> 48 [] c = "1" -> 49
    [] c = "2" -> 50 [] c = "3" -> 51 [] c = "4" -> 52 [] c = "5" -> 53
    [] c = "6" -> 54 [] c = "7" -> 55 [] c = "8" -> 56 [] c = "9" -> 57
    [] c = ";" -> 59 [] c = "A" -> 65 [] c = "B" -> 66 [] c = "G" -> 71
    [] c = "P" -> 80 [] c = "Q" -> 81 [] c = "a" -> 97 [] c = "b" -> 98
    [] c = "c" -> 99 [] c = "w" -> 119 [] c = "x" -> 120 [] c = "y" -> 121
    [] c = "z" -> 122
    [] OTHER -> 0

\* char::is_whitespace, on the characters of the model
IsWhitespace(c) == c \in {SP, CR, LF}

\* a.cmp(b) = Less on Strings: lexicographic on bytes, a proper prefix is less
RECURSIVE StrLess(_, _)
StrLess(a, b) ==
  IF b = <<>> THEN FALSE
  ELSE IF a = <<>> THEN TRUE
  ELSE IF CharCode(Head(a)) # CharCode(Head(b))
       THEN CharCode(Head(a)) < CharCode(Head(b))
  ELSE StrLess(Tail(a), Tail(b))

(* ----------------------------- formatter ------------------------------ *)

NoDigits == -1

Digit(d) == <<"0", "1", "2", "3", "4", "5", "6", "7", "8", "9">>[d + 1]

RECURSIVE DecStr(_)
DecStr(n) == IF n < 10 THEN <<Digit(n)>> ELSE Append(DecStr(n \div 10), Digit(n % 10))

RECURSIVE Pow10(_)
Pow10(d) == IF d = 0 THEN 1 ELSE 10 * Pow10(d - 1)

RECURSIVE ZeroPad(_, _)
ZeroPad(s, width) == IF Len(s) >= width THEN s ELSE ZeroPad(<<"0">> \o s, width)

\* a / b rounded to the nearest integer, ties to even (closes are quarters, which
\* an f64 holds exactly, so the decimal expansion format! rounds is q/4 itself)
RoundHalfEven(a, b) ==
  LET fl == a \div b
      rem == a % b
  IN IF 2 * rem < b THEN fl
     ELSE IF 2 * rem > b THEN fl + 1
     ELSE IF fl % 2 = 0 THEN fl ELSE fl + 1

\* format!("{price}") of the f64 q/4: the shortest decimal that reads back
FormatNatural(q) ==
  DecStr(q \div 4) \o
    (CASE q % 4 = 0 -> <<>>
       [] q % 4 = 1 -> <<".", "2", "5">>
       [] q % 4 = 2 -> <<".", "5">>
       [] q % 4 = 3 -> <<".", "7", "5">>)

\* format!("{price:.d$}") of the f64 q/4: exactly d digits after the point
FormatFixed(q, d) ==
  LET n == RoundHalfEven(q * Pow10(d), 4)
  IN IF d = 0 THEN DecStr(n)
     ELSE DecStr(n \div Pow10(d)) \o <<".">> \o ZeroPad(DecStr(n % Pow10(d)), d)

\* decimal_digits.map_or_else(|| format!("{price}"), |d| format!("{price:.d$}"))
PriceString(q, decimal_digits) ==
  IF decimal_digits = NoDigits THEN FormatNatural(q) ELSE FormatFixed(q, decimal_digits)

\* price_string.replace('.', &separator.to_string())
ReplaceDot(s, separator) == [i \in 1..Len(s) |-> IF s[i] = "." THEN separator ELSE s[i]]

\* mutant: the separator is never substituted
SeparatedPriceUnreplaced(q, o) == PriceString(q, o.decimal_digits)

\* if separator != '.' { price_string = price_string.replace(...) }
SeparatedPrice(q, o) ==
  IF o.separator # "." THEN ReplaceDot(PriceString(q, o.decimal_digits), o.separator)
  ELSE PriceString(q, o.decimal_digits)

\* the value string the closure of api_data builds for one day
FormatValue(q, o) ==
  IF o.currency_symbol_before
  THEN o.stock_name \o <<SP>> \o o.currency_commodity_name \o SeparatedPrice(q, o)
  ELSE o.stock_name \o <<SP>> \o SeparatedPrice(q, o) \o <<SP>> \o o.currency_commodity_name

(* ------------------------------ hash maps ----------------------------- *)

EmptyMap == <<>>

\* mutant: an entry already present is kept (entry().or_insert)
InsertKeepingFirst(m, k, v) ==
  [x \in (DOMAIN m) \cup {k} |-> IF x \in DOMAIN m THEN m[x] ELSE v]

\* HashMap::insert
Insert(m, k, v) == [x \in (DOMAIN m) \cup {k} |-> IF x = k THEN v ELSE m[x]]

\* collect::<HashMap<_, _>>() of a sequence of (key, value) pairs: inserts in order
RECURSIVE Collect(_)
Collect(pairs) ==
  IF pairs = <<>> THEN EmptyMap
  ELSE LET n == Len(pairs)
       IN Insert(Collect(SubSeq(pairs, 1, n - 1)), pairs[n][1], pairs[n][2])

\* mutant: the fetched entries replace the file's entries altogether
ExtendDroppingOld(m, other) == other

\* mutant: an entry of the file is kept when the date is fetched too
ExtendKeepingOld(m, other) ==
  [x \in (DOMAIN m) \cup (DOMAIN other) |-> IF x \in DOMAIN m THEN m[x] ELSE other[x]]

\* HashMap::extend: inserts every entry of `other`
Extend(m, other) ==
  [x \in (DOMAIN m) \cup (DOMAIN other) |-> IF x \in DOMAIN other THEN other[x] ELSE m[x]]

(* --------------------------- ledger reader ---------------------------- *)

\* index of the first occurrence of c in s, 0 when there is none
RECURSIVE IndexFrom(_, _, _)
IndexFrom(s, c, i) ==
  IF i > Len(s) THEN 0 ELSE IF s[i] = c THEN i ELSE IndexFrom(s, c, i + 1)

IndexOf(s, c) == IndexFrom(s, c, 1)

\* what Lines::next makes of the bytes read_line returned: a final '\n' is
\* popped, and then (only then) a final '\r'
StripNewline(buf) ==
  IF buf # <<>> /\ buf[Len(buf)] = LF
  THEN LET t == SubSeq(buf, 1, Len(buf) - 1)
       IN IF t # <<>> /\ t[Len(t)] = CR THEN SubSeq(t, 1, Len(t) - 1) ELSE t
  ELSE buf

\* BufReader::new(file).lines(): read_line up to and including each '\n', or to
\* the end of the file; no line once no byte is left
RECURSIVE Lines(_)
Lines(bytes) ==
  IF bytes = <<>> THEN <<>>
  ELSE LET i == IndexOf(bytes, LF)
       IN IF i = 0 THEN <<StripNewline(bytes)>>
          ELSE <<StripNewline(SubSeq(bytes, 1, i))>> \o Lines(SubSeq(bytes, i + 1, Len(bytes)))

\* str::trim_start
RECURSIVE TrimStart(_)
TrimStart(s) == IF s # <<>> /\ IsWhitespace(Head(s)) THEN TrimStart(Tail(s)) ELSE s

\* mutant: a line without a space is skipped like a comment
ParseLineLenient(line) ==
  IF line # <<>> /\ Head(line) = ";" THEN [kind |-> "comment"]
  ELSE LET i == IndexOf(line, SP)
       IN IF i = 0 THEN [kind |-> "comment"]
          ELSE LET first_part == SubSeq(line, 1, i - 1)
                   last_part == SubSeq(line, i + 1, Len(line))
                   j == IndexOf(last_part, SP)
               IN IF first_part # <<"P">> THEN [kind |-> "not_price"]
                  ELSE IF j = 0 THEN [kind |-> "one_space"]
                  ELSE [kind |-> "pair",
                        date |-> SubSeq(last_part, 1, j - 1),
                        price_info |-> SubSeq(last_part, j + 1, Len(last_part))]

\* mutant: the value loses its trailing whitespace (trim instead of trim_start)
RECURSIVE TrimEnd(_)
TrimEnd(s) ==
  IF s # <<>> /\ IsWhitespace(s[Len(s)]) THEN TrimEnd(SubSeq(s, 1, Len(s) - 1)) ELSE s

ParseLineTrimmed(line) ==
  IF line # <<>> /\ Head(line) = ";" THEN [kind |-> "comment"]
  ELSE LET i == IndexOf(line, SP)
       IN IF i = 0 THEN [kind |-> "no_space"]
          ELSE LET first_part == SubSeq(line, 1, i - 1)
                   last_part == SubSeq(line, i + 1, Len(line))
                   j == IndexOf(last_part, SP)
               IN IF first_part # <<"P">> THEN [kind |-> "not_price"]
                  ELSE IF j = 0 THEN [kind |-> "one_space"]
                  ELSE [kind |-> "pair",
                        date |-> SubSeq(last_part, 1, j - 1),
                        price_info |-> TrimEnd(SubSeq(last_part, j + 1, Len(last_part)))]

\* the two closures after trim_start: the comment filter, and the map that
\* splits a directive line twice on its first space
ParseLine(line) ==
  IF line # <<>> /\ Head(line) = ";" THEN [kind |-> "comment"]
  ELSE LET i == IndexOf(line, SP)
       IN IF i = 0 THEN [kind |-> "no_space"]
          ELSE LET first_part == SubSeq(line, 1, i - 1)
                   last_part == SubSeq(line, i + 1, Len(line))
                   j == IndexOf(last_part, SP)
               IN IF first_part # <<"P">> THEN [kind |-> "not_price"]
                  ELSE IF j = 0 THEN [kind |-> "one_space"]
                  ELSE [kind |-> "pair",
                        date |-> SubSeq(last_part, 1, j - 1),
                        price_info |-> SubSeq(last_part, j + 1, Len(last_part))]

\* the lazy iterator chain that collect() drives: line by line, in file order,
\* up to the first failure.  failAt is the index of the read_line call that
\* returns an I/O error (0: none does).
RECURSIVE ScanLines(_, _, _, _)
ScanLines(lines, i, failAt, acc) ==
  IF i = failAt THEN [error |-> "io", pairs |-> acc]
  ELSE IF i > Len(lines) THEN [error |-> "none", pairs |-> acc]
  ELSE LET p == ParseLine(TrimStart(lines[i]))
       IN IF p.kind = "comment" THEN ScanLines(lines, i + 1, failAt, acc)
          ELSE IF p.kind = "pair"
          THEN ScanLines(lines, i + 1, failAt, Append(acc, <<p.date, p.price_info>>))
          ELSE [error |-> "format", pairs |-> acc]

ReadLedger(bytes, failAt) == ScanLines(Lines(bytes), 1, failAt, <<>>)

(* -------------------------- merge, sort, write ------------------------ *)

\* a.cmp(b) on Strings
Cmp(a, b) == IF StrLess(a, b) THEN "Less" ELSE IF a = b THEN "Equal" ELSE "Greater"

\* Ordering::reverse
Reverse(o) == CASE o = "Less" -> "Greater" [] o = "Greater" -> "Less" [] OTHER -> "Equal"

\* mutant: the comparator without .reverse()
CompareEntriesAscending(x, y) == Cmp(x[1], y[1])

\* the comparator handed to sort_by: |(a, _), (b, _)| a.cmp(b).reverse()
CompareEntries(x, y) == Reverse(Cmp(x[1], y[1]))

\* slice::sort_by, a stable sort: x goes in front of the first element it is Less than
RECURSIVE InsertSorted(_, _)
InsertSorted(sorted, x) ==
  IF sorted = <<>> THEN <<x>>
  ELSE IF CompareEntries(x, Head(sorted)) = "Less" THEN <<x>> \o sorted
  ELSE <<Head(sorted)>> \o InsertSorted(Tail(sorted), x)

RECURSIVE SortBy(_)
SortBy(v) ==
  IF v = <<>> THEN <<>> ELSE InsertSorted(SortBy(SubSeq(v, 1, Len(v) - 1)), v[Len(v)])

\* the orders HashMap::into_iter may yield the entries of m in
IterOrders(m) ==
  LET n == Cardinality(DOMAIN m)
  IN {[i \in 1..n |-> <<ks[i], m[ks[i]]>>] :
        ks \in {f \in [1..n -> DOMAIN m] : \A a, b \in 1..n : a # b => f[a] # f[b]}}

\* mutant: the header line without its comment marker
HeaderWithoutSemicolon == <<"Generated by", SP, "CARGO_PKG_NAME", SP, "V", "CARGO_PKG_VERSION">>

\* the text of the header: "; Generated by {CARGO_PKG_NAME} V{CARGO_PKG_VERSION}"
HeaderLine == <<";", SP, "Generated by", SP, "CARGO_PKG_NAME", SP, "V", "CARGO_PKG_VERSION">>

\* writeln!(file, "P {current_datetime} {price_info}")
DirectiveLine(entry) == <<"P", SP>> \o entry[1] \o <<SP>> \o entry[2]

\* what a failed write may leave of a line on disk: nothing, or a part of it
PartialWrites(line) == {<<>>, SubSeq(line, 1, (Len(line) + 1) \div 2)}

(* ------------------------------- inputs ------------------------------- *)

\* lines an existing journal file is made of, each with its terminator: comment
\* and directive lines, LF and CRLF endings, a value that ends in '\r', a last
\* line without a newline, an empty date, and the three malformed shapes
Chunks ==
  { <<SP, ";", SP, "c", LF>>,
    <<"P", SP, "0", "1", SP, "x", LF>>,
    <<"P", SP, "0", "1", SP, "y", CR, LF>>,
    <<"P", SP, "1", "0", SP, "z", CR, CR, LF>>,
    <<SP, "P", SP, "9", SP, "a", SP, "b">>,
    <<"P", SP, SP, "w", LF>>,
    <<"G", LF>>,
    <<"Q", SP, "0", "1", SP, "x", LF>>,
    <<"P", SP, "0", "2", LF>> }

RECURSIVE Journals(_)
Journals(n) ==
  IF n = 0 THEN {<<>>}
  ELSE Journals(n - 1) \cup {f \o c : f \in Journals(n - 1), c \in Chunks}

\* the dates (data_for_day.time(), without spaces or line breaks) and closing
\* prices (in quarters) of a response
FetchDates == {<<"0", "1">>, <<"0", "2">>}
FetchCloses == {5}

RECURSIVE SeqsUpTo(_, _)
SeqsUpTo(S, n) ==
  IF n = 0 THEN {<<>>}
  ELSE SeqsUpTo(S, n - 1) \cup {Append(q, x) : q \in SeqsUpTo(S, n - 1), x \in S}

FetchResults == SeqsUpTo([time : FetchDates, close : FetchCloses], MaxFetch)

\* the arguments of `history` the pipeline runs with; commodity names are
\* single-line text
HistoryOptions ==
  { [stock_name |-> <<"A">>, currency_commodity_name |-> <<"$">>, separator |-> ".",
     decimal_digits |-> NoDigits, currency_symbol_before |-> FALSE],
    [stock_name |-> <<"B">>, currency_commodity_name |-> <<"$">>, separator |-> ",",
     decimal_digits |-> 1, currency_symbol_before |-> TRUE] }

\* the arguments the formatter is exercised with
FormatOptions ==
  [stock_name : {<<"A">>, <<"B", ".", "B">>},
   currency_commodity_name : {<<"$">>},
   separator : {".", ",", "9"},
   decimal_digits : {NoDigits} \cup (0..MaxDigits),
   currency_symbol_before : BOOLEAN]

(* -------------------------------- state ------------------------------- *)

VARIABLES
  run,          \* the number of this invocation of the history command
  api_response, \* the time series the API serves for the stock symbol
  pc,           \* where get_history_for_stock is
  journal,      \* the bytes of journal_file on disk
  journal0,     \* the bytes of journal_file when the run began
  opts,         \* the arguments of the call
  stock_times,  \* the response's data(): a sequence of [time, close]
  api_data,     \* HashMap date -> value string, from the response
  file_data,    \* HashMap date -> price_info, from the journal file
  new_data,     \* the merged entries, a Vec sorted for writing
  pos,          \* the entries of new_data the write loop has written
  error,        \* the kind of the fatal error the run ended with, or "none"
  started,      \* the steps begun, in order
  finished      \* the steps completed, in order

vars == <<run, api_response, pc, journal, journal0, opts, stock_times, api_data, file_data, new_data,
          pos, error, started, finished>>

Locals == <<stock_times, api_data, file_data, new_data, pos>>

Init ==
  /\ run = 1
  /\ api_response \in FetchResults
  /\ pc = "start"
  /\ journal \in Journals(MaxLines)
  /\ journal0 = journal
  /\ opts \in HistoryOptions
  /\ stock_times = <<>>
  /\ api_data = EmptyMap
  /\ file_data = EmptyMap
  /\ new_data = <<>>
  /\ pos = 0
  /\ error = "none"
  /\ started = <<>>
  /\ finished = <<>>

\* mutant: the error is reported and the process goes on
ReportWithoutExit(kind) ==
  /\ pc' = pc
  /\ error' = kind

\* report_application_bug, and the exit(1) of get_alpha_vantage_client: the
\* process ends
ReportApplicationBug(kind) ==
  /\ pc' = "exit"
  /\ error' = kind

(* ------------------------------- actions ------------------------------ *)

\* get_alpha_vantage_client fails: the API key is not set
ClientFails ==
  /\ pc = "start"
  /\ ReportApplicationBug("config")
  /\ UNCHANGED <<run, api_response, journal, journal0, opts, Locals, started, finished>>

\* the stock_time request is sent and awaited
SendRequest ==
  /\ pc = "start"
  /\ pc' = "awaiting"
  /\ started' = Append(started, "fetch")
  /\ UNCHANGED <<run, api_response, journal, journal0, opts, Locals, error, finished>>

\* .json().await returns the time series
FetchReturns ==
  /\ pc = "awaiting"
  /\ stock_times' = api_response
  /\ pc' = "fetched"
  /\ finished' = Append(finished, "fetch")
  /\ UNCHANGED <<run, api_response, journal, journal0, opts, api_data, file_data, new_data, pos, error, started>>

\* .json().await returns an error
FetchFails ==
  /\ pc = "awaiting"
  /\ ReportApplicationBug("api")
  /\ UNCHANGED <<run, api_response, journal, journal0, opts, Locals, started, finished>>

\* stock_times.data().iter().map(..).collect()
ApiData(data, o) ==
  Collect([i \in 1..Len(data) |-> <<data[i].time, FormatValue(data[i].close, o)>>])

\* mutant: the comparison of the two lengths the wrong way round
DuplicateDaysNever(data, map) == Len(data) < Cardinality(DOMAIN map)

\* stock_times.data().len() != api_data.len()
DuplicateDays(data, map) == Len(data) # Cardinality(DOMAIN map)

\* api_data is built and checked against the response's length
BuildApiData ==
  /\ pc = "fetched"
  /\ started' = Append(started, "format")
  /\ api_data' = ApiData(stock_times, opts)
  /\ IF DuplicateDays(stock_times, api_data')
     THEN ReportApplicationBug("internal") /\ UNCHANGED finished
     ELSE pc' = "checked" /\ finished' = Append(finished, "format") /\ UNCHANGED error
  /\ UNCHANGED <<run, api_response, journal, journal0, opts, stock_times, file_data, new_data, pos>>

\* File::open fails
OpenFails ==
  /\ pc = "checked"
  /\ started' = Append(started, "read")
  /\ ReportApplicationBug("io")
  /\ UNCHANGED <<run, api_response, journal, journal0, opts, Locals, finished>>

\* File::open, and collect() over the lines of the file
ReadJournal ==
  /\ pc = "checked"
  /\ started' = Append(started, "read")
  /\ \E failAt \in 0..(Len(Lines(journal)) + 1) :
       LET r == ReadLedger(journal, failAt)
       IN IF r.error = "none"
          THEN /\ file_data' = Collect(r.pairs)
               /\ pc' = "read"
               /\ finished' = Append(finished, "read")
               /\ UNCHANGED error
          ELSE /\ ReportApplicationBug(r.error)
               /\ UNCHANGED <<file_data, finished>>
  /\ UNCHANGED <<run, api_response, journal, journal0, opts, stock_times, api_data, new_data, pos>>

\* new_data = file_data; new_data.extend(api_data); into_iter().collect(); sort_by
MergeAndSort ==
  /\ pc = "read"
  /\ started' = Append(started, "merge")
  /\ \E v \in IterOrders(Extend(file_data, api_data)) : new_data' = SortBy(v)
  /\ pc' = "merged"
  /\ finished' = Append(finished, "merge")
  /\ UNCHANGED <<run, api_response, journal, journal0, opts, stock_times, api_data, file_data, pos, error>>

\* File::create fails: the file is as it was
CreateFails ==
  /\ pc = "merged"
  /\ started' = Append(started, "write")
  /\ ReportApplicationBug("io")
  /\ UNCHANGED <<run, api_response, journal, journal0, opts, Locals, finished>>

\* File::create truncates the file
CreateFile ==
  /\ pc = "merged"
  /\ started' = Append(started, "write")
  /\ journal' = <<>>
  /\ pc' = "header"
  /\ UNCHANGED <<run, api_response, journal0, opts, Locals, error, finished>>

\* writeln!(file, "; Generated by ..")
WriteHeader ==
  /\ pc = "header"
  /\ journal' = journal \o HeaderLine \o <<LF>>
  /\ pc' = "lines"
  /\ UNCHANGED <<run, api_response, journal0, opts, Locals, error, started, finished>>

WriteHeaderFails ==
  /\ pc = "header"
  /\ \E part \in PartialWrites(HeaderLine \o <<LF>>) : journal' = journal \o part
  /\ ReportApplicationBug("io")
  /\ UNCHANGED <<run, api_response, journal0, opts, Locals, started, finished>>

\* one iteration of the loop over &new_data
WriteLine ==
  /\ pc = "lines"
  /\ pos < Len(new_data)
  /\ journal' = journal \o DirectiveLine(new_data[pos + 1]) \o <<LF>>
  /\ pos' = pos + 1
  /\ UNCHANGED <<run, api_response, pc, journal0, opts, stock_times, api_data, file_data, new_data, error,
                 started, finished>>

WriteLineFails ==
  /\ pc = "lines"
  /\ pos < Len(new_data)
  /\ \E part \in PartialWrites(DirectiveLine(new_data[pos + 1]) \o <<LF>>) :
       journal' = journal \o part
  /\ ReportApplicationBug("io")
  /\ UNCHANGED <<run, api_response, journal0, opts, Locals, started, finished>>

\* the loop is over: get_history_for_stock returns
Return ==
  /\ pc = "lines"
  /\ pos = Len(new_data)
  /\ pc' = "done"
  /\ finished' = Append(finished, "write")
  /\ UNCHANGED <<run, api_response, journal, journal0, opts, Locals, error, started>>

\* main dispatches Command::History once more, with the same arguments, on the
\* file the run before has written
RunAgain ==
  /\ pc = "done"
  /\ run < MaxRuns
  /\ run' = run + 1
  /\ pc' = "start"
  /\ journal0' = journal
  /\ stock_times' = <<>>
  /\ api_data' = EmptyMap
  /\ file_data' = EmptyMap
  /\ new_data' = <<>>
  /\ pos' = 0
  /\ started' = <<>>
  /\ finished' = <<>>
  /\ UNCHANGED <<api_response, journal, opts, error>>

Next ==
  \/ ClientFails
  \/ SendRequest
  \/ FetchReturns
  \/ FetchFails
  \/ BuildApiData
  \/ OpenFails
  \/ ReadJournal
  \/ MergeAndSort
  \/ CreateFails
  \/ CreateFile
  \/ WriteHeader
  \/ WriteHeaderFails
  \/ WriteLine
  \/ WriteLineFails
  \/ Return
  \/ RunAgain

Spec == Init /\ [][Next]_vars

(* ----------------------- formatter specification ---------------------- *)

\* the formatter alone: one fetched day of any close in 0..MaxQuarters quarters,
\* under every combination of the formatting arguments
InitFormat ==
  /\ run = 1
  /\ api_response \in {<<[time |-> <<"0", "1">>, close |-> q]>> : q \in 0..MaxQuarters}
  /\ pc = "fetched"
  /\ journal = <<>>
  /\ journal0 = journal
  /\ opts \in FormatOptions
  /\ stock_times = api_response
  /\ api_data = EmptyMap
  /\ file_data = EmptyMap
  /\ new_data = <<>>
  /\ pos = 0
  /\ error = "none"
  /\ started = <<"fetch">>
  /\ finished = <<"fetch">>

NextFormat == BuildApiData

SpecFormat == InitFormat /\ [][NextFormat]_vars

(* ------------------- what the claims speak about ---------------------- *)

Last(s) == s[Len(s)]

SetMin(S) == CHOOSE x \in S : \A y \in S : x <= y
SetMax(S) == CHOOSE x \in S : \A y \in S : y <= x

\* the lines of a file every line of which ends in '\n', without their '\n'
RECURSIVE SplitAtLF(_)
SplitAtLF(bytes) ==
  IF bytes = <<>> THEN <<>>
  ELSE LET ends == {i \in 1..Len(bytes) : bytes[i] = LF}
           e == IF ends = {} THEN Len(bytes) + 1 ELSE SetMin(ends)
       IN <<SubSeq(bytes, 1, e - 1)>> \o SplitAtLF(SubSeq(bytes, e + 1, Len(bytes)))

EndsWithLF(bytes) == bytes # <<>> /\ Last(bytes) = LF

\* the shape of a line: a comment, or "P <date> <value>"
Spaces(l) == {i \in 1..Len(l) : l[i] = SP}
IsComment(l) == l # <<>> /\ l[1] = ";"
IsDirective(l) == Len(l) >= 3 /\ l[1] = "P" /\ l[2] = SP /\ Spaces(l) \ {2} # {}
SecondSpace(l) == SetMin(Spaces(l) \ {2})
DateIn(l) == SubSeq(l, 3, SecondSpace(l) - 1)
ValueIn(l) == SubSeq(l, SecondSpace(l) + 1, Len(l))
IsMalformed(l) == ~IsComment(l) /\ ~IsDirective(l)

\* the file as the run found it: its lines, leading whitespace trimmed
OldLines == LET ls == Lines(journal0) IN [i \in 1..Len(ls) |-> TrimStart(ls[i])]
OldMalformed == \E i \in 1..Len(OldLines) : IsMalformed(OldLines[i])
OldDirectives == {i \in 1..Len(OldLines) : IsDirective(OldLines[i]) /\ ~IsComment(OldLines[i])}
OldDates == {DateIn(OldLines[i]) : i \in OldDirectives}
OldFor(d) == {i \in OldDirectives : DateIn(OldLines[i]) = d}
OldLastValue(d) == ValueIn(OldLines[SetMax(OldFor(d))])

\* the response of the API
FetchedDates == {api_response[i].time : i \in 1..Len(api_response)}
FetchedDuplicate ==
  \E i, j \in 1..Len(api_response) : i # j /\ api_response[i].time = api_response[j].time
FetchedValue(d) ==
  FormatValue(api_response[CHOOSE i \in 1..Len(api_response) : api_response[i].time = d].close,
              opts)

\* the file as it is now
NewLines == SplitAtLF(journal)
NewFor(d) == {i \in 2..Len(NewLines) : IsDirective(NewLines[i]) /\ DateIn(NewLines[i]) = d}

\* a < b for strings, bytewise
LexLess(a, b) ==
  \E k \in 1..Len(b) :
    /\ k <= Len(a) + 1
    /\ \A i \in 1..(k - 1) : a[i] = b[i]
    /\ (k = Len(a) + 1 \/ CharCode(a[k]) < CharCode(b[k]))

Has(seq, x) == \E i \in 1..Len(seq) : seq[i] = x

(* ------------------------------- claims ------------------------------- *)

\* C1: when a run completes, the file is the generated-by header line followed by
\* exactly one "P <date> <value>" line for each date of the union of the old
\* file's dates and the fetched dates, and nothing else.
C1_FileIsHeaderAndUnion ==
  pc = "done" =>
    LET U == OldDates \cup FetchedDates
    IN /\ EndsWithLF(journal)
       /\ Len(NewLines) = 1 + Cardinality(U)
       /\ NewLines[1] = HeaderLine
       /\ \A i \in 2..Len(NewLines) :
            IsDirective(NewLines[i]) /\ DateIn(NewLines[i]) \in U
       /\ \A d \in U : Cardinality(NewFor(d)) = 1

C1_Witness ==
  /\ pc = "done"
  /\ run = 1
  /\ \E i \in 1..Len(OldLines) : IsComment(OldLines[i])
  /\ OldDates \ FetchedDates # {}
  /\ FetchedDates \ OldDates # {}

\* C2: a date that is both in the old file and in the fetched data is written with
\* the fetched, formatted value.
C2_FetchedValueWins ==
  pc = "done" =>
    \A d \in OldDates \cap FetchedDates :
      \A i \in NewFor(d) : ValueIn(NewLines[i]) = FetchedValue(d)

C2_Witness ==
  /\ pc = "done"
  /\ \E d \in OldDates \cap FetchedDates :
       /\ OldLastValue(d) # FetchedValue(d)
       /\ NewFor(d) # {}

\* C3: the dates of the directive lines written so far are strictly descending,
\* bytewise, from line to line.
C3_DatesStrictlyDescending ==
  (pc \in {"lines", "done"}) =>
    \A i \in 2..(Len(NewLines) - 1) : LexLess(DateIn(NewLines[i + 1]), DateIn(NewLines[i]))

C3_Witness ==
  /\ pc = "done"
  /\ Len(NewLines) >= 4
  /\ \E i \in 2..(Len(NewLines) - 1) :
       DateIn(NewLines[i]) = <<"9">> /\ DateIn(NewLines[i + 1]) = <<"1", "0">>

\* C4: a malformed line in the old file ends the run in a parse error when the
\* reader gets to it (no I/O failure coming first); nothing is merged and the file
\* is never opened for writing: it keeps its bytes.
C4_MalformedFileUntouched ==
  OldMalformed =>
    /\ journal = journal0
    /\ ~Has(started, "merge")
    /\ ~Has(started, "write")
    /\ Has(started, "read") => (pc = "exit" /\ (error # "io" => error = "format"))

C4_Witness ==
  /\ OldMalformed
  /\ OldDirectives # {}
  /\ Has(started, "read")
  /\ error = "format"

\* C5: two fetched entries of one date make the fetched mapping smaller than the
\* response; the run ends in the internal-consistency error, and the file is neither
\* read nor written.
C5_DuplicateDaysFatal ==
  (FetchedDuplicate /\ Has(started, "format")) =>
    /\ Cardinality(DOMAIN api_data) # Len(stock_times)
    /\ pc = "exit"
    /\ error = "internal"
    /\ ~Has(started, "read")
    /\ ~Has(started, "write")
    /\ journal = journal0

C5_Witness == FetchedDuplicate /\ Has(started, "format") /\ journal0 # <<>>

\* C6: several directives of one date in the old file are no error; the reader's
\* mapping holds the value of the last of them, and that value is written when the
\* date is not fetched.
C6_LastDirectiveOfADateWins ==
  \A d \in OldDates :
    Cardinality(OldFor(d)) >= 2 =>
      /\ (Has(started, "read") /\ ~OldMalformed) => error # "format"
      /\ Has(finished, "read") => (d \in DOMAIN file_data /\ file_data[d] = OldLastValue(d))
      /\ (pc = "done" /\ d \notin FetchedDates) =>
           \E i \in 2..Len(NewLines) :
             NewLines[i] = <<"P", SP>> \o d \o <<SP>> \o OldLastValue(d)

C6_Witness ==
  /\ pc = "done"
  /\ \E d \in OldDates \ FetchedDates :
       \E i, j \in OldFor(d) : ValueIn(OldLines[i]) # ValueIn(OldLines[j])

StepOrder == <<"fetch", "format", "read", "merge", "write">>

IsPrefix(a, b) == Len(a) <= Len(b) /\ \A i \in 1..Len(a) : a[i] = b[i]

\* C7: the steps of a run begin in the order fetch, (format), read, merge, write,
\* each at most once and only when every earlier one has completed; a fatal error
\* ends the run inside the step it occurs in, and the file is touched by the write
\* step alone.
C7_StepsInOrder ==
  /\ IsPrefix(started, StepOrder)
  /\ IsPrefix(finished, started)
  /\ Len(started) <= Len(finished) + 1
  /\ (error # "none") <=> (pc = "exit")
  /\ pc = "exit" =>
       /\ (error = "config" /\ started = <<>>) \/ Len(started) = Len(finished) + 1
       /\ error = "api" => Last(started) = "fetch"
       /\ error = "internal" => Last(started) = "format"
       /\ error = "format" => Last(started) = "read"
       /\ error = "io" => Last(started) \in {"read", "write"}
  /\ pc = "done" <=> finished = StepOrder
  /\ journal # journal0 => Has(started, "write")
  /\ file_data # EmptyMap => Has(finished, "read")
  /\ new_data # <<>> => Has(finished, "merge")

C7_Witness ==
  /\ pc = "exit"
  /\ error = "io"
  /\ started = StepOrder
  /\ pos >= 1
  /\ journal # journal0

\* C9: a date of the old file that is not fetched is written once, with exactly the
\* text that follows the date in the old file's last directive of that date.
C9_UnfetchedEntriesKept ==
  pc = "done" =>
    \A d \in OldDates \ FetchedDates :
      /\ Cardinality(NewFor(d)) = 1
      /\ \A i \in NewFor(d) : NewLines[i] = <<"P", SP>> \o d \o <<SP>> \o OldLastValue(d)

C9_Witness ==
  /\ pc = "done"
  /\ run = 1
  /\ FetchedDates # {}
  /\ \E d \in OldDates \ FetchedDates : Has(OldLastValue(d), SP)

\* what the line reader gives back of a value that was written before a '\n'
ReadBack(value) ==
  IF value # <<>> /\ Last(value) = CR THEN SubSeq(value, 1, Len(value) - 1) ELSE value

WrittenBefore == SplitAtLF(journal0)

\* C10, as claimed: a file a run has written is accepted by the reader, every line
\* of it reads back as the (date, value) it was written from, and a second run with
\* the same response and arguments leaves the file as it is.
C10_SecondRunIdentical ==
  run >= 2 =>
    /\ Has(started, "read") => error # "format"
    /\ Has(finished, "read") =>
         \A i \in 2..Len(WrittenBefore) :
           /\ DateIn(WrittenBefore[i]) \in DOMAIN file_data
           /\ file_data[DateIn(WrittenBefore[i])] = ValueIn(WrittenBefore[i])
    /\ pc = "done" => journal = journal0

\* C10, amended: a file a run has written is accepted by the reader; every line of
\* it reads back as the (date, value) it was written from, less one final '\r' of
\* the value; when no written line ends in '\r', the second run leaves the file as
\* it is.
C10_SecondRunIdenticalWithoutCR ==
  run >= 2 =>
    /\ Has(started, "read") => error # "format"
    /\ Has(finished, "read") =>
         \A i \in 2..Len(WrittenBefore) :
           /\ DateIn(WrittenBefore[i]) \in DOMAIN file_data
           /\ file_data[DateIn(WrittenBefore[i])] = ReadBack(ValueIn(WrittenBefore[i]))
    /\ (pc = "done" /\ \A i \in 2..Len(WrittenBefore) : Last(WrittenBefore[i]) # CR) =>
         journal = journal0

C10_Witness ==
  /\ run = 2
  /\ pc = "done"
  /\ Len(WrittenBefore) >= 4
  /\ \A i \in 2..Len(WrittenBefore) : Last(WrittenBefore[i]) # CR
  /\ journal = journal0

\* the formatter's result for the one fetched day of the formatter specification
Formatted == api_data[stock_times[1].time]

\* the same day formatted with '.' as the separator
FormattedWithDot == FormatValue(stock_times[1].close, [opts EXCEPT !.separator = "."])

\* the positions of the formatted value the price takes
PricePositions ==
  LET names == Len(opts.stock_name) + 1
  IN IF opts.currency_symbol_before
     THEN (names + Len(opts.currency_commodity_name) + 1)..Len(FormattedWithDot)
     ELSE (names + 1)..(Len(FormattedWithDot) - Len(opts.currency_commodity_name) - 1)

\* C8, as claimed: with a separator other than '.', the formatted value holds no
\* '.', and the separator wherever it would have held '.'.
C8_NoDotInFormatted ==
  (pc = "checked" /\ opts.separator # ".") =>
    /\ Len(Formatted) = Len(FormattedWithDot)
    /\ \A i \in 1..Len(Formatted) :
         /\ Formatted[i] # "."
         /\ FormattedWithDot[i] = "." => Formatted[i] = opts.separator

\* C8, amended: with a separator other than '.', the price in the formatted value
\* holds no '.', and the separator wherever it would have held '.'; the commodity
\* names (and the spaces) are as they are with '.', a '.' of a name included.
C8_NoDotInFormattedPrice ==
  (pc = "checked" /\ opts.separator # ".") =>
    /\ Len(Formatted) = Len(FormattedWithDot)
    /\ \A i \in PricePositions :
         /\ Formatted[i] # "."
         /\ FormattedWithDot[i] = "." => Formatted[i] = opts.separator
         /\ FormattedWithDot[i] # "." => Formatted[i] = FormattedWithDot[i]
    /\ \A i \in (1..Len(Formatted)) \ PricePositions : Formatted[i] = FormattedWithDot[i]

C8_Witness ==
  /\ pc = "checked"
  /\ opts.separator = ","
  /\ opts.stock_name = <<"B", ".", "B">>
  /\ \E i \in PricePositions : FormattedWithDot[i] = "." /\ Formatted[i] = ","

====
